---- MODULE Spec2Model ----
(***************************************************************************)
(* Model of onepicture.py: main() scans a source tree in a process pool,   *)
(* fingerprints every file from its first and last chunk, splits the       *)
(* records into first occurrences and duplicates, copies the duplicates    *)
(* to the redundant directory and the first occurrences to                 *)
(* timeline/YYYY-MM/filename.  The source tree, the redundant directory    *)
(* and the timeline directory persist from one run of main() to the next.  *)
(***************************************************************************)
EXTENDS Integers, Sequences, FiniteSets, TLC

\* ---------------------------------------------------------------- bounds
MaxFiles == 3       \* files in the source tree
MaxRuns == 2        \* runs of main() against the same disks
MaxFaults == 1      \* I/O faults the environment injects into copies and mkdirs
CPU_CORES == 2      \* multiprocessing.cpu_count() of the machine

\* CHUNK_SIZE is 1024 * 1024 in the program; the model scales bytes so that
\* files shorter than, equal to and longer than one chunk all occur.
CHUNK_SIZE == 2
BATCH_SIZE == 1000

ExcludedNames == {"Thumbs.db", ".DS_Store", ".processed_files.hash"}
Names == {"a.jpg", "b.jpg", "Thumbs.db"}
Contents == {<< >>, <<1>>, <<2, 1>>}
\* st_mtime of a file
Times == {[y |-> 2024, m |-> 1, d |-> 5], [y |-> 2024, m |-> 2, d |-> 1]}
\* "ok": readable; "vanished": stat() raises FileNotFoundError; "denied":
\* open() raises PermissionError; "ioerr": read() raises OSError(EIO)
Kinds == {"ok", "vanished", "denied", "ioerr"}

Min(a, b) == IF a < b THEN a ELSE b

\* ------------------------------------------------------------ fingerprint
NoneChunk == [some |-> FALSE, bytes |-> << >>]
Chunk(b) == [some |-> TRUE, bytes |-> b]

\* read_file_chunks: (head, tail).  open() raising FileNotFoundError or
\* PermissionError is logged and gives (None, None); read() raising another
\* OSError leaves the function.  seek(-chunk_size, SEEK_END) raises OSError
\* when the file is shorter than chunk_size, which leaves tail = None.
read_file_chunks(f, chunk_size) ==
    IF f.kind \in {"vanished", "denied"}
    THEN [head |-> NoneChunk, tail |-> NoneChunk, logged |-> TRUE, raised |-> FALSE]
    ELSE IF f.kind = "ioerr"
    THEN [head |-> NoneChunk, tail |-> NoneChunk, logged |-> FALSE, raised |-> TRUE]
    ELSE [head |-> Chunk(SubSeq(f.content, 1, Min(chunk_size, Len(f.content)))),
          tail |-> IF Len(f.content) >= chunk_size
                   THEN Chunk(SubSeq(f.content, Len(f.content) - chunk_size + 1,
                                     Len(f.content)))
                   ELSE NoneChunk,
          logged |-> FALSE, raised |-> FALSE]

\* Python truth value of an Optional[bytes]: None and b'' are both false
Truthy(c) == c.some /\ Len(c.bytes) > 0

NoneHash == [some |-> FALSE, fed |-> << >>]
\* calculate_file_hash: the hexdigest, or None when neither chunk is truthy.
\* md5 is modelled as injective on the bytes fed to it: the digest is the
\* byte string itself.
calculate_file_hash(f) ==
    LET c == read_file_chunks(f, CHUNK_SIZE)
        h0 == << >>
        h1 == IF Truthy(c.head) THEN h0 \o c.head.bytes ELSE h0
        h2 == IF Truthy(c.tail) THEN h1 \o c.tail.bytes ELSE h1
    IN IF Truthy(c.head) \/ Truthy(c.tail)
       THEN [some |-> TRUE, fed |-> h2]
       ELSE NoneHash

NoneMeta == [valid |-> FALSE, Filename |-> "", Full_path |-> 0,
             ModifiedTime |-> [y |-> 0, m |-> 0, d |-> 0], FileHash |-> NoneHash]

\* process_file: the metadata row, None, or an exception that leaves the
\* worker; logged says whether logger.error was called for the file.  stat()
\* of a vanished file raises FileNotFoundError, which is caught and logged;
\* PermissionError of open() is caught and logged in read_file_chunks; any
\* other OSError is caught nowhere.
process_file(f, path) ==
    IF f.kind = "vanished"
    THEN [raised |-> FALSE, logged |-> TRUE, meta |-> NoneMeta]
    ELSE LET c == read_file_chunks(f, CHUNK_SIZE)
             file_hash == calculate_file_hash(f)
         IN IF c.raised
            THEN [raised |-> TRUE, logged |-> FALSE, meta |-> NoneMeta]
            ELSE IF file_hash.some   \* "if file_hash:": a hexdigest is never ''
            THEN [raised |-> FALSE, logged |-> c.logged,
                  meta |-> [valid |-> TRUE, Filename |-> f.name, Full_path |-> path,
                            ModifiedTime |-> f.mtime, FileHash |-> file_hash]]
            ELSE [raised |-> FALSE, logged |-> c.logged, meta |-> NoneMeta]

\* ------------------------------------------------------------------ state
VARIABLES
    files,              \* the source tree, in os.walk order: path -> file
    run,                \* runs of main() started so far
    pc,                 \* where main() is
    exc,                \* the call whose exception left main(), or "none"
    finished,           \* positions of all_files a pool worker has processed
    next,               \* position executor.map yields next
    file_metadata_list, \* make_dataframe_from_metadata's list of rows
    unique_files_df,    \* main()'s metadata_df.drop_duplicates(subset='FileHash')
    duplicates_df,      \* identify_duplicates(metadata_df)
    k,                  \* row the running iterrows() loop is at
    dirs,               \* directories that exist on the destination disk
    quarantine,         \* REDUNDANT_DIRECTORY: file name -> file
    archive,            \* TIMELINE_DIRECTORY: (YYYY-MM, file name) -> file
    ledger,             \* .processed_files.hash of each YYYY-MM directory
    copied_files,       \* main()'s counter
    skipped_files,      \* main()'s counter
    report,             \* log lines of this run, per source path
    faults,             \* I/O faults injected so far
    renamed,            \* a file was renamed since the last run ended
    copies,             \* shutil.copy2 calls of this run that wrote a file
    clean,              \* this run has met no fault
    prevClean,          \* the previous run ended at "done" without a fault
    sameTree,           \* the source tree is as it was when the previous run started
    prevDone,           \* the previous run ran to its end
    overtaken           \* in this scan a worker finished a file before an earlier one

vars == <<files, run, pc, exc, finished, next, file_metadata_list, unique_files_df,
          duplicates_df, k, dirs, quarantine, archive, ledger, copied_files,
          skipped_files, report, faults, renamed, copies, clean, prevClean, sameTree, prevDone, overtaken>>

Paths == 1..MaxFiles
T0 == [y |-> 2024, m |-> 1, d |-> 5]

\* Files of the source tree.  Name, content and time of a file that cannot be
\* read, and content and time of a file the scan leaves out, are never used.
TreeFiles ==
    [name : Names \ ExcludedNames, content : Contents, mtime : Times, kind : {"ok"}]
    \cup [name : {"a.jpg"}, content : {<<1>>}, mtime : {T0}, kind : Kinds \ {"ok"}]
    \cup [name : Names \cap ExcludedNames, content : {<<1>>}, mtime : {T0}, kind : {"ok"}]

NoFile == [present |-> FALSE, content |-> << >>]
File(c) == [present |-> TRUE, content |-> c]

\* strftime('%Y-%m') of fromisoformat(isoformat(mtime))
year_month(t) == <<t.y, t.m>>
Partitions == {year_month(t) : t \in Times}
QuarantineNames == (0..(MaxFiles - 1)) \X (Names \ ExcludedNames)
ArchivePaths == Partitions \X (Names \ ExcludedNames)

\* a directory of the destination disk: a root, or a YYYY-MM directory in it
NoPartition == <<0, 0>>
Dir(root, partition) == [root |-> root, partition |-> partition]

\* a copy that does not look whether the destination is there
existsNever(fs, p) == FALSE

\* Path.exists()
exists(fs, p) == fs[p].present

\* line 121: every file under the root except the three excluded names
RECURSIVE walk(_, _)
walk(tree, i) ==
    IF i > Len(tree) THEN << >>
    ELSE (IF tree[i].name \in ExcludedNames THEN << >> ELSE <<i>>) \o walk(tree, i + 1)
all_files == walk(files, 1)

\* keep='last' in place of keep='first'
duplicatedKeepLast(rows, r) ==
    \E j \in (r + 1)..Len(rows) : rows[j].FileHash = rows[r].FileHash

\* pandas: DataFrame.duplicated(subset='FileHash', keep='first') for row r
duplicated(rows, r) == \E j \in 1..(r - 1) : rows[j].FileHash = rows[r].FileHash

\* the rows of a dataframe selected by a mask, each with its index label
RECURSIVE select(_, _, _)
select(rows, r, keepDuplicated) ==
    IF r > Len(rows) THEN << >>
    ELSE (IF duplicated(rows, r) = keepDuplicated
          THEN <<[idx |-> r - 1, row |-> rows[r]]>> ELSE << >>)
         \o select(rows, r + 1, keepDuplicated)

Log(path, line) == [report EXCEPT ![path] = Append(@, line)]

\* Names matter only through equality and exclusion, so the first file that
\* has a regular name is the one called a.jpg.
Init ==
    /\ files \in [Paths -> TreeFiles]
    /\ \A i \in Paths : files[i].name = "b.jpg" => \E j \in 1..(i - 1) : files[j].name = "a.jpg"
    /\ run = 0
    /\ pc = "idle"
    /\ exc = "none"
    /\ finished = {}
    /\ next = 1
    /\ file_metadata_list = << >>
    /\ unique_files_df = << >>
    /\ duplicates_df = << >>
    /\ k = 1
    /\ dirs = {}
    /\ quarantine = [q \in QuarantineNames |-> NoFile]
    /\ archive = [a \in ArchivePaths |-> NoFile]
    /\ ledger = [p \in Partitions |-> {}]
    /\ copied_files = 0
    /\ skipped_files = 0
    /\ report = [p \in Paths |-> << >>]
    /\ faults = 0
    /\ renamed = FALSE
    /\ copies = 0
    /\ clean = TRUE
    /\ prevClean = FALSE
    /\ sameTree = FALSE
    /\ prevDone = FALSE
    /\ overtaken = FALSE

Ended == pc \in {"idle", "done", "raised"}

\* main() lines 239-244: a run starts; counters and the dataframe are new
StartRun ==
    /\ Ended
    /\ run < MaxRuns
    /\ run' = run + 1
    /\ pc' = "scan"
    /\ exc' = "none"
    /\ finished' = {}
    /\ next' = 1
    /\ file_metadata_list' = << >>
    /\ unique_files_df' = << >>
    /\ duplicates_df' = << >>
    /\ k' = 1
    /\ copied_files' = 0
    /\ skipped_files' = 0
    /\ report' = [p \in Paths |-> << >>]
    /\ copies' = 0
    /\ clean' = TRUE
    /\ prevClean' = (pc = "done" /\ clean)
    /\ prevDone' = (pc = "done")
    /\ overtaken' = FALSE
    /\ sameTree' = (run > 0 /\ ~renamed)
    /\ renamed' = FALSE
    /\ UNCHANGED <<files, dirs, quarantine, archive, ledger, faults>>

\* positions of all_files handed to a worker: the pool starts tasks in
\* submission order, one per free worker
Started == 1..Min(Len(all_files), Cardinality(finished) + CPU_CORES)

ResultOf(p) == process_file(files[all_files[p]], all_files[p])

\* lines 83-103 in a pool worker: one file is processed; workers finish in
\* any order
ProcessFile(p) ==
    /\ pc = "scan"
    /\ p \in Started \ finished
    /\ finished' = finished \cup {p}
    /\ report' = IF ResultOf(p).logged THEN Log(all_files[p], "scan_error") ELSE report
    /\ UNCHANGED <<files, run, pc, exc, next, file_metadata_list, unique_files_df,
                   duplicates_df, k, dirs, quarantine, archive, ledger, copied_files,
                   skipped_files, faults, renamed, copies, clean, prevClean,
                   sameTree>>
    /\ overtaken' = (overtaken \/ \E q \in 1..(p - 1) : q \notin finished)
    /\ UNCHANGED prevDone

\* the position whose result executor.map hands to the loop of line 122
Yielded == {p \in finished : p = next}

\* lines 122-124: the next result in submission order is consumed; a worker's
\* exception is raised again here and leaves main()
Collect ==
    /\ pc = "scan"
    /\ \E p \in Yielded :
         LET r == ResultOf(p)
         IN IF r.raised
            THEN /\ pc' = "raised"
                 /\ exc' = "process_file"
                 /\ UNCHANGED <<next, file_metadata_list>>
            ELSE /\ next' = next + 1
                 /\ file_metadata_list' =
                        IF r.meta.valid THEN Append(file_metadata_list, r.meta)
                        ELSE file_metadata_list
                 /\ UNCHANGED <<pc, exc>>
    /\ UNCHANGED <<files, run, finished, unique_files_df, duplicates_df, k, dirs,
                   quarantine, archive, ledger, copied_files, skipped_files, report,
                   faults, renamed, copies, clean, prevClean, sameTree>>
    /\ UNCHANGED <<prevDone, overtaken>>

\* lines 129-131 and 246-249: the dataframe is split into first occurrences
\* and duplicates
Classify ==
    /\ pc = "scan"
    /\ next > Len(all_files)
    /\ unique_files_df' = select(file_metadata_list, 1, FALSE)
    /\ duplicates_df' = select(file_metadata_list, 1, TRUE)
    /\ pc' = "mkdir_redundant"
    /\ UNCHANGED <<files, run, exc, finished, next, file_metadata_list, k, dirs,
                   quarantine, archive, ledger, copied_files, skipped_files, report,
                   faults, renamed, copies, clean, prevClean, sameTree>>
    /\ UNCHANGED <<prevDone, overtaken>>

\* create_directory: mkdir(parents=True, exist_ok=True); it can fail only
\* when the directory is not there yet
CanFault == faults < MaxFaults

\* line 250: create_directory(REDUNDANT_DIRECTORY), outside any try
MkdirRedundant ==
    /\ pc = "mkdir_redundant"
    /\ \/ /\ dirs' = dirs \cup {Dir("redundant", NoPartition)}
          /\ pc' = "quarantine"
          /\ k' = 1
          /\ UNCHANGED <<exc, faults, clean>>
       \/ /\ Dir("redundant", NoPartition) \notin dirs
          /\ CanFault
          /\ faults' = faults + 1
          /\ clean' = FALSE
          /\ pc' = "raised"
          /\ exc' = "create_directory"
          /\ UNCHANGED <<dirs, k>>
    /\ UNCHANGED <<files, run, finished, next, file_metadata_list, unique_files_df,
                   duplicates_df, quarantine, archive, ledger, copied_files,
                   skipped_files, report, renamed, copies, prevClean, sameTree>>
    /\ overtaken' = FALSE
    /\ UNCHANGED prevDone

\* what a failed shutil.copy2 leaves at the destination: nothing, or the
\* bytes written before the failure
Leftovers(c) == {NoFile} \cup {File(SubSeq(c, 1, n)) : n \in 0..(Len(c) - 1)}

\* lines 167-179, one iteration of move_files: the duplicate goes to
\* REDUNDANT_DIRECTORY/{idx}_{Filename} unless that name is taken; every
\* OSError of the iteration is caught and logged
MoveFile ==
    /\ pc = "quarantine"
    /\ k <= Len(duplicates_df)
    /\ LET idx == duplicates_df[k].idx
           row == duplicates_df[k].row
           destination_path == <<idx, row.Filename>>
       IN \/ /\ ~exists(quarantine, destination_path)
             /\ quarantine' = [quarantine EXCEPT ![destination_path] =
                                   File(files[row.Full_path].content)]
             /\ copies' = copies + 1
             /\ report' = Log(row.Full_path, "moving")
             /\ UNCHANGED <<faults, clean>>
          \/ /\ exists(quarantine, destination_path)
             /\ report' = Log(row.Full_path, "moving")
             /\ UNCHANGED <<quarantine, copies, faults, clean>>
          \/ /\ CanFault
             /\ faults' = faults + 1
             /\ clean' = FALSE
             /\ report' = [report EXCEPT ![row.Full_path] = @ \o <<"moving", "move_error">>]
             /\ IF exists(quarantine, destination_path)
                THEN quarantine' = quarantine
                ELSE \E left \in Leftovers(files[row.Full_path].content) :
                        quarantine' = [quarantine EXCEPT ![destination_path] = left]
             /\ UNCHANGED copies
    /\ k' = k + 1
    /\ UNCHANGED <<files, run, pc, exc, finished, next, file_metadata_list,
                   unique_files_df, duplicates_df, dirs, archive, ledger, copied_files,
                   skipped_files, renamed, prevClean, sameTree>>
    /\ UNCHANGED <<prevDone, overtaken>>

\* line 253: move_files has returned; batch_generator yields the first batch,
\* if there is a row at all
QuarantineDone ==
    /\ pc = "quarantine"
    /\ k > Len(duplicates_df)
    /\ pc' = IF Len(unique_files_df) = 0 THEN "done" ELSE "mkdir_timeline"
    /\ k' = 1
    /\ UNCHANGED <<files, run, exc, finished, next, file_metadata_list, unique_files_df,
                   duplicates_df, dirs, quarantine, archive, ledger, copied_files,
                   skipped_files, report, faults, renamed, copies, clean, prevClean,
                   sameTree>>
    /\ UNCHANGED <<prevDone, overtaken>>

\* line 195, once per batch: create_directory(timeline_directory), outside
\* any try
MkdirTimeline ==
    /\ pc = "mkdir_timeline"
    /\ \/ /\ dirs' = dirs \cup {Dir("timeline", NoPartition)}
          /\ pc' = "archive"
          /\ UNCHANGED <<exc, faults, clean>>
       \/ /\ Dir("timeline", NoPartition) \notin dirs
          /\ CanFault
          /\ faults' = faults + 1
          /\ clean' = FALSE
          /\ pc' = "raised"
          /\ exc' = "create_directory"
          /\ UNCHANGED dirs
    /\ UNCHANGED <<files, run, finished, next, file_metadata_list, unique_files_df,
                   duplicates_df, k, quarantine, archive, ledger, copied_files,
                   skipped_files, report, renamed, copies, prevClean, sameTree>>
    /\ UNCHANGED <<prevDone, overtaken>>

\* where main() goes after row k of unique_files_df: the next row of the
\* batch, the next batch, or the end (lines 253-265)
AfterRow(row_k) ==
    IF row_k >= Len(unique_files_df) THEN "done"
    ELSE IF row_k % BATCH_SIZE = 0 THEN "mkdir_timeline"
    ELSE "archive"

\* lines 197-216, one iteration of create_timeline_directories: the YYYY-MM
\* directory is created outside the try; inside it the file is copied to
\* YYYY-MM/Filename unless that path exists, and every OSError is caught and
\* logged.  No line of the program writes .processed_files.hash.
ArchiveFile ==
    /\ pc = "archive"
    /\ k <= Len(unique_files_df)
    /\ LET row == unique_files_df[k].row
           partition == year_month(row.ModifiedTime)
           destination_dir == Dir("timeline", partition)
           destination_path == <<partition, row.Filename>>
       IN \/ /\ destination_dir \notin dirs
             /\ CanFault
             /\ faults' = faults + 1
             /\ clean' = FALSE
             /\ pc' = "raised"
             /\ exc' = "create_directory"
             /\ UNCHANGED <<dirs, archive, copied_files, skipped_files, report, copies, k>>
          \/ /\ dirs' = dirs \cup {destination_dir}
             /\ pc' = AfterRow(k)
             /\ k' = k + 1
             /\ exc' = exc
             /\ \/ /\ ~exists(archive, destination_path)
                   /\ archive' = [archive EXCEPT ![destination_path] =
                                      File(files[row.Full_path].content)]
                   /\ copied_files' = copied_files + 1
                   /\ copies' = copies + 1
                   /\ report' = Log(row.Full_path, "copying")
                   /\ UNCHANGED <<skipped_files, faults, clean>>
                \/ /\ exists(archive, destination_path)
                   /\ skipped_files' = skipped_files + 1
                   /\ report' = Log(row.Full_path, "copying")
                   /\ UNCHANGED <<archive, copied_files, copies, faults, clean>>
                \/ /\ CanFault
                   /\ faults' = faults + 1
                   /\ clean' = FALSE
                   /\ report' = [report EXCEPT ![row.Full_path] =
                                     @ \o <<"copying", "copy_error">>]
                   /\ IF exists(archive, destination_path)
                      THEN archive' = archive
                      ELSE \E left \in Leftovers(files[row.Full_path].content) :
                              archive' = [archive EXCEPT ![destination_path] = left]
                   /\ UNCHANGED <<copied_files, skipped_files, copies>>
    /\ UNCHANGED <<files, run, finished, next, file_metadata_list, unique_files_df,
                   duplicates_df, quarantine, ledger, renamed, prevClean, sameTree>>
    /\ UNCHANGED <<prevDone, overtaken>>

\* between two runs the operator renamed a file of the source tree
Rename(i, nm) ==
    /\ Ended
    /\ run >= 1
    /\ run < MaxRuns
    /\ ~renamed
    /\ files[i].kind = "ok"
    /\ files[i].name \notin ExcludedNames
    /\ nm \notin ExcludedNames
    /\ nm # files[i].name
    /\ files' = [files EXCEPT ![i].name = nm]
    /\ renamed' = TRUE
    /\ UNCHANGED <<run, pc, exc, finished, next, file_metadata_list, unique_files_df,
                   duplicates_df, k, dirs, quarantine, archive, ledger, copied_files,
                   skipped_files, report, faults, copies, clean, prevClean, sameTree>>
    /\ UNCHANGED <<prevDone, overtaken>>

Next ==
    \/ StartRun
    \/ \E p \in 1..MaxFiles : ProcessFile(p)
    \/ Collect
    \/ Classify
    \/ MkdirRedundant
    \/ MoveFile
    \/ QuarantineDone
    \/ MkdirTimeline
    \/ ArchiveFile
    \/ \E i \in Paths, nm \in Names : Rename(i, nm)

Spec == Init /\ [][Next]_vars

\* the scan and the classification of one run, on their own
NextScan ==
    \/ StartRun
    \/ \E p \in 1..MaxFiles : ProcessFile(p)
    \/ Collect
    \/ Classify

SpecScan == Init /\ [][NextScan]_vars

\* ----------------------------------------------------------------- claims
Fingerprint(c) ==
    calculate_file_hash([name |-> "", content |-> c, mtime |-> T0, kind |-> "ok"])

\* paths the scan enumerates, and those among them that can be read and yield a digest
Enumerated == {i \in Paths : files[i].name \notin ExcludedNames}
Fingerprinted == {i \in Enumerated : files[i].kind = "ok" /\ Fingerprint(files[i].content).some}
Recorded == {file_metadata_list[j].Full_path : j \in 1..Len(file_metadata_list)}
Representatives == {unique_files_df[j].row.Full_path : j \in 1..Len(unique_files_df)}
Redundant == {duplicates_df[j].row.Full_path : j \in 1..Len(duplicates_df)}
Classified ==
    \/ pc \in {"mkdir_redundant", "quarantine", "mkdir_timeline", "archive", "done"}
    \/ pc = "raised" /\ exc = "create_directory"
RunEnded == run >= 1 /\ Ended
DestinationOf(j) ==
    <<year_month(unique_files_df[j].row.ModifiedTime), unique_files_df[j].row.Filename>>
Events(i) == {report[i][n] : n \in 1..Len(report[i])}

\* C1: once the records are classified, the representatives are exactly the
\* fingerprinted files that no earlier file of the enumeration shares a
\* fingerprint with, one row each, and every other fingerprinted file is
\* redundant, whatever order the workers finished in.
C1_FirstInScanOrderIsRepresentative ==
    Classified =>
        /\ Representatives =
               {i \in Fingerprinted :
                    \A j \in Fingerprinted :
                        Fingerprint(files[j].content) = Fingerprint(files[i].content)
                            => i <= j}
        /\ Redundant = Fingerprinted \ Representatives
        /\ Len(unique_files_df) = Cardinality(Representatives)
        /\ Len(duplicates_df) = Cardinality(Redundant)

\* a scan in which a worker finished a later file before an earlier one has
\* been classified into a representative and a redundant file
C1_Witness ==
    /\ pc = "mkdir_redundant"
    /\ overtaken
    /\ Len(duplicates_df) >= 1
    /\ Len(unique_files_df) >= 1

C3_LedgerHoldsArchivedFingerprints ==
    pc = "done" =>
        \A j \in 1..Len(unique_files_df) :
            archive[DestinationOf(j)].present
                => unique_files_df[j].row.FileHash \in ledger[DestinationOf(j)[1]]

\* C4: no partition directory holds two files with the same fingerprint.
C4_NoFingerprintTwiceInPartition ==
    \A a \in ArchivePaths, b \in ArchivePaths :
        (/\ a # b
         /\ a[1] = b[1]
         /\ archive[a].present
         /\ archive[b].present
         /\ Fingerprint(archive[a].content).some)
            => Fingerprint(archive[a].content) # Fingerprint(archive[b].content)

\* C5: a file that exists at an archive destination path is never changed by
\* a later step.
C5_ArchivedFileNeverOverwritten ==
    [][\A a \in ArchivePaths : archive[a].present => archive'[a] = archive[a]]_vars

\* two representatives of one run map to one destination path; both have been
\* processed and the path holds the content of the first, not of the second
C5_Witness ==
    \E i \in 1..Len(unique_files_df), j \in 1..Len(unique_files_df) :
        /\ pc \in {"archive", "done"}
        /\ i < j
        /\ j < k
        /\ DestinationOf(i) = DestinationOf(j)
        /\ archive[DestinationOf(i)] = File(files[unique_files_df[i].row.Full_path].content)
        /\ archive[DestinationOf(j)] # File(files[unique_files_df[j].row.Full_path].content)

\* C6: when two representatives of a run map to one destination path and the
\* path holds the first one's file, the run's report holds a name collision
\* for the second, which is not counted with the skipped, already archived
\* files.
C6_NameCollisionReported ==
    (pc = "done" /\ clean) =>
        \A i \in 1..Len(unique_files_df), j \in 1..Len(unique_files_df) :
            (/\ i < j
             /\ DestinationOf(i) = DestinationOf(j)
             /\ archive[DestinationOf(i)] = File(files[unique_files_df[i].row.Full_path].content))
                => /\ "name_collision" \in Events(unique_files_df[j].row.Full_path)
                   /\ skipped_files < Len(unique_files_df)

\* C7: a readable file of zero length has a record once the scan is over.
C7_EmptyFileHasRecord ==
    Classified =>
        \A i \in Enumerated :
            (files[i].kind = "ok" /\ Len(files[i].content) = 0) => i \in Recorded

\* C8: a file that cannot be scanned never ends the scan: when the run is
\* over, every other file has been fingerprinted and classified.
C8_ScanFailureNeverAborts ==
    (RunEnded /\ exc # "create_directory") =>
        /\ exc # "process_file"
        /\ Fingerprinted \subseteq Representatives \cup Redundant

\* C9: whatever fails for one file while archiving or quarantining, every
\* redundant file and every representative has been attempted when the run
\* is over.  The roots exist, so the failure is one inside the loops.
C9_EveryFileAttempted ==
    (RunEnded /\ Dir("timeline", NoPartition) \in dirs) =>
        /\ \A i \in Redundant : "moving" \in Events(i)
        /\ \A i \in Representatives : "copying" \in Events(i)

\* the dispositions the run has reported for a path
Dispositions(i) ==
    IF Events(i) \cap {"scan_error", "move_error", "copy_error"} # {}
    THEN {"failed"}
    ELSE {"quarantined" : e \in Events(i) \cap {"moving"}}
         \cup {"archived or skipped" : e \in Events(i) \cap {"copying"}}

\* C10: at the end of a run every enumerated file has either a record or a
\* reported scan failure, and exactly one reported disposition.
C10_EveryFileAccountedFor ==
    pc = "done" =>
        \A i \in Enumerated :
            /\ (i \in Recorded) # ("scan_error" \in Events(i))
            /\ Cardinality(Dispositions(i)) = 1
            /\ Len(report[i]) >= 1

====
